---------------------------- MODULE Spec2Model ----------------------------
(***************************************************************************)
(* RestaurantBot.get_recommendation of src/main.py as a state machine: the *)
(* catalog restaurants_data, the lazily initialised ranking client, and    *)
(* the calls, each of which shuffles and filters the catalog, awaits the   *)
(* ranking call under a timeout, and falls back to the keyword scorer.     *)
(*                                                                         *)
(* The application is built without concurrent updates (line 443) and      *)
(* handle_message awaits get_recommendation (line 373), so the calls       *)
(* follow one another; the worker thread of a call that timed out keeps    *)
(* running beside the calls that follow.                                   *)
(*                                                                         *)
(* Around the calls stand the handlers start and handle_message with the   *)
(* dictionary user_states, and beside them _convert_google_drive_url and   *)
(* _smart_fallback_selection, each also applied alone to all its inputs.   *)
(*                                                                         *)
(* A Python string is the sequence of its characters. A Cyrillic letter is *)
(* written as "_" followed by its transliteration ("_p" is п, "_P" is П),  *)
(* which keeps it distinct from every Latin letter; the comments give the  *)
(* original text.                                                          *)
(***************************************************************************)
EXTENDS Integers, Sequences, FiniteSets, TLC

\* The longest catalog Init and Reload draw.
MaxCatalog == 3

\* How many times the catalog may be reloaded in one behaviour.
MaxReloads == 1

\* The longest list of rows a reload reads.
MaxReloadRows == 1

\* How many worker threads of timed-out calls may still be running.
MaxLateThreads == 1

\* How many times in a row the conversion of a photo link is applied.
MaxConversions == 2

\* The longest catalog where sessions of several users are followed.
MaxSessionCatalog == 1

\* Where the count of recommendations sent since a /start stops.
MaxServed == 2

\* str.lower() on the characters of the model: Latin A-Z and the Cyrillic capitals
\* (a Cyrillic letter is written "_" followed by its transliteration, "_P" for П, "_p" for п).
UpperLetters ==
    <<"A", "B", "C", "D", "E", "F", "G", "H", "I", "J", "K", "L", "M", "N", "O", "P", "Q", "R", "S", "T", "U", "V", "W", "X", "Y", "Z", "_A", "_B", "_V", "_H", "_G", "_D", "_E", "_YE", "_ZH", "_Z", "_Y", "_I", "_YI", "_J", "_K", "_L", "_M", "_N", "_O", "_P", "_R", "_S", "_T", "_U", "_F", "_KH", "_TS", "_CH", "_SH", "_SHCH", "_Q", "_YU", "_YA">>

LowerLetters ==
    <<"a", "b", "c", "d", "e", "f", "g", "h", "i", "j", "k", "l", "m", "n", "o", "p", "q", "r", "s", "t", "u", "v", "w", "x", "y", "z", "_a", "_b", "_v", "_h", "_g", "_d", "_e", "_ye", "_zh", "_z", "_y", "_i", "_yi", "_j", "_k", "_l", "_m", "_n", "_o", "_p", "_r", "_s", "_t", "_u", "_f", "_kh", "_ts", "_ch", "_sh", "_shch", "_q", "_yu", "_ya">>

\* food_keywords, in the dict's insertion order: dish -> substrings that reveal it.
food_keywords ==
    <<
    \* піца: піц, pizza
       [dish |-> <<"_p", "_i", "_ts", "_a">>,
        keywords |-> <<<<"_p", "_i", "_ts">>,
                      <<"p", "i", "z", "z", "a">>>>],
    \* паста: паст, спагеті, pasta
       [dish |-> <<"_p", "_a", "_s", "_t", "_a">>,
        keywords |-> <<<<"_p", "_a", "_s", "_t">>,
                      <<"_s", "_p", "_a", "_h", "_e", "_t", "_i">>,
                      <<"p", "a", "s", "t", "a">>>>],
    \* бургер: бургер, burger, гамбургер
       [dish |-> <<"_b", "_u", "_r", "_h", "_e", "_r">>,
        keywords |-> <<<<"_b", "_u", "_r", "_h", "_e", "_r">>,
                      <<"b", "u", "r", "g", "e", "r">>,
                      <<"_h", "_a", "_m", "_b", "_u", "_r", "_h", "_e", "_r">>>>],
    \* суші: суш, sushi, рол
       [dish |-> <<"_s", "_u", "_sh", "_i">>,
        keywords |-> <<<<"_s", "_u", "_sh">>,
                      <<"s", "u", "s", "h", "i">>,
                      <<"_r", "_o", "_l">>>>],
    \* салат: салат, salad
       [dish |-> <<"_s", "_a", "_l", "_a", "_t">>,
        keywords |-> <<<<"_s", "_a", "_l", "_a", "_t">>,
                      <<"s", "a", "l", "a", "d">>>>],
    \* хумус: хумус, hummus
       [dish |-> <<"_kh", "_u", "_m", "_u", "_s">>,
        keywords |-> <<<<"_kh", "_u", "_m", "_u", "_s">>,
                      <<"h", "u", "m", "m", "u", "s">>>>],
    \* фалафель: фалафель, falafel
       [dish |-> <<"_f", "_a", "_l", "_a", "_f", "_e", "_l", "_q">>,
        keywords |-> <<<<"_f", "_a", "_l", "_a", "_f", "_e", "_l", "_q">>,
                      <<"f", "a", "l", "a", "f", "e", "l">>>>],
    \* шаурма: шаурм, shawarma
       [dish |-> <<"_sh", "_a", "_u", "_r", "_m", "_a">>,
        keywords |-> <<<<"_sh", "_a", "_u", "_r", "_m">>,
                      <<"s", "h", "a", "w", "a", "r", "m", "a">>>>],
    \* стейк: стейк, steak, мясо
       [dish |-> <<"_s", "_t", "_e", "_j", "_k">>,
        keywords |-> <<<<"_s", "_t", "_e", "_j", "_k">>,
                      <<"s", "t", "e", "a", "k">>,
                      <<"_m", "_ya", "_s", "_o">>>>],
    \* риба: риб, fish, лосось
       [dish |-> <<"_r", "_y", "_b", "_a">>,
        keywords |-> <<<<"_r", "_y", "_b">>,
                      <<"f", "i", "s", "h">>,
                      <<"_l", "_o", "_s", "_o", "_s", "_q">>>>],
    \* курка: курк, курич, chicken
       [dish |-> <<"_k", "_u", "_r", "_k", "_a">>,
        keywords |-> <<<<"_k", "_u", "_r", "_k">>,
                      <<"_k", "_u", "_r", "_y", "_ch">>,
                      <<"c", "h", "i", "c", "k", "e", "n">>>>],
    \* десерт: десерт, торт, тірамісу, морозиво
       [dish |-> <<"_d", "_e", "_s", "_e", "_r", "_t">>,
        keywords |-> <<<<"_d", "_e", "_s", "_e", "_r", "_t">>,
                      <<"_t", "_o", "_r", "_t">>,
                      <<"_t", "_i", "_r", "_a", "_m", "_i", "_s", "_u">>,
                      <<"_m", "_o", "_r", "_o", "_z", "_y", "_v", "_o">>>>]
    >>

\* keywords_map: category -> (request-side keywords, venue-side keywords).
keywords_map ==
    <<
    \* romantic: (романт, побачен, двох, інтимн, затишн), (інтимн, романт, для пар, затишн)
       [category |-> "romantic",
        user_keywords |-> <<<<"_r", "_o", "_m", "_a", "_n", "_t">>,
                           <<"_p", "_o", "_b", "_a", "_ch", "_e", "_n">>,
                           <<"_d", "_v", "_o", "_kh">>,
                           <<"_i", "_n", "_t", "_y", "_m", "_n">>,
                           <<"_z", "_a", "_t", "_y", "_sh", "_n">>>>,
        restaurant_keywords |-> <<<<"_i", "_n", "_t", "_y", "_m", "_n">>,
                                 <<"_r", "_o", "_m", "_a", "_n", "_t">>,
                                 <<"_d", "_l", "_ya", " ", "_p", "_a", "_r">>,
                                 <<"_z", "_a", "_t", "_y", "_sh", "_n">>>>],
    \* family: (сім, діт, родин, батьк), (сімейн, діт, родин)
       [category |-> "family",
        user_keywords |-> <<<<"_s", "_i", "_m">>,
                           <<"_d", "_i", "_t">>,
                           <<"_r", "_o", "_d", "_y", "_n">>,
                           <<"_b", "_a", "_t", "_q", "_k">>>>,
        restaurant_keywords |-> <<<<"_s", "_i", "_m", "_e", "_j", "_n">>,
                                 <<"_d", "_i", "_t">>,
                                 <<"_r", "_o", "_d", "_y", "_n">>>>],
    \* business: (діл, зустріч, перегов, бізнес), (діл, зустріч, бізнес)
       [category |-> "business",
        user_keywords |-> <<<<"_d", "_i", "_l">>,
                           <<"_z", "_u", "_s", "_t", "_r", "_i", "_ch">>,
                           <<"_p", "_e", "_r", "_e", "_h", "_o", "_v">>,
                           <<"_b", "_i", "_z", "_n", "_e", "_s">>>>,
        restaurant_keywords |-> <<<<"_d", "_i", "_l">>,
                                 <<"_z", "_u", "_s", "_t", "_r", "_i", "_ch">>,
                                 <<"_b", "_i", "_z", "_n", "_e", "_s">>>>],
    \* friends: (друз, компан, гуртом, весел), (компан, друз, молодіжн)
       [category |-> "friends",
        user_keywords |-> <<<<"_d", "_r", "_u", "_z">>,
                           <<"_k", "_o", "_m", "_p", "_a", "_n">>,
                           <<"_h", "_u", "_r", "_t", "_o", "_m">>,
                           <<"_v", "_e", "_s", "_e", "_l">>>>,
        restaurant_keywords |-> <<<<"_k", "_o", "_m", "_p", "_a", "_n">>,
                                 <<"_d", "_r", "_u", "_z">>,
                                 <<"_m", "_o", "_l", "_o", "_d", "_i", "_zh", "_n">>>>],
    \* quick: (швидк, перекус, фаст, поспіша), (швидк, casual, фаст)
       [category |-> "quick",
        user_keywords |-> <<<<"_sh", "_v", "_y", "_d", "_k">>,
                           <<"_p", "_e", "_r", "_e", "_k", "_u", "_s">>,
                           <<"_f", "_a", "_s", "_t">>,
                           <<"_p", "_o", "_s", "_p", "_i", "_sh", "_a">>>>,
        restaurant_keywords |-> <<<<"_sh", "_v", "_y", "_d", "_k">>,
                                 <<"c", "a", "s", "u", "a", "l">>,
                                 <<"_f", "_a", "_s", "_t">>>>],
    \* celebration: (святкув, день народж, ювіле, свято), (святков, простор, груп)
       [category |-> "celebration",
        user_keywords |-> <<<<"_s", "_v", "_ya", "_t", "_k", "_u", "_v">>,
                           <<"_d", "_e", "_n", "_q", " ", "_n", "_a", "_r", "_o", "_d", "_zh">>,
                           <<"_yu", "_v", "_i", "_l", "_e">>,
                           <<"_s", "_v", "_ya", "_t", "_o">>>>,
        restaurant_keywords |-> <<<<"_s", "_v", "_ya", "_t", "_k", "_o", "_v">>,
                                 <<"_p", "_r", "_o", "_s", "_t", "_o", "_r">>,
                                 <<"_h", "_r", "_u", "_p">>>>]
    >>

\* 'Ресторан'
PlaceholderName == <<"_R", "_e", "_s", "_t", "_o", "_r", "_a", "_n">>

\* 'Адреса не вказана'
PlaceholderAddress == <<"_A", "_d", "_r", "_e", "_s", "_a", " ", "_n", "_e", " ", "_v", "_k", "_a", "_z", "_a", "_n", "_a">>

\* 'Соц-мережі не вказані'
PlaceholderSocials == <<"_S", "_o", "_ts", "-", "_m", "_e", "_r", "_e", "_zh", "_i", " ", "_n", "_e", " ", "_v", "_k", "_a", "_z", "_a", "_n", "_i">>

\* 'Приємна атмосфера'
PlaceholderVibe == <<"_P", "_r", "_y", "_ye", "_m", "_n", "_a", " ", "_a", "_t", "_m", "_o", "_s", "_f", "_e", "_r", "_a">>

\* 'Для будь-яких подій'
PlaceholderAim == <<"_D", "_l", "_ya", " ", "_b", "_u", "_d", "_q", "-", "_ya", "_k", "_y", "_kh", " ", "_p", "_o", "_d", "_i", "_j">>

\* 'Смачна кухня'
PlaceholderCuisine == <<"_S", "_m", "_a", "_ch", "_n", "_a", " ", "_k", "_u", "_kh", "_n", "_ya">>

\* 'drive.google.com'
DriveHost == <<"d", "r", "i", "v", "e", ".", "g", "o", "o", "g", "l", "e", ".", "c", "o", "m">>

\* '/file/d/'
DriveFilePath == <<"/", "f", "i", "l", "e", "/", "d", "/">>

\* 'https://drive.google.com/uc?export=view&id='
DriveDirectPrefix == <<"h", "t", "t", "p", "s", ":", "/", "/", "d", "r", "i", "v", "e", ".", "g", "o", "o", "g", "l", "e", ".", "c", "o", "m", "/", "u", "c", "?", "e", "x", "p", "o", "r", "t", "=", "v", "i", "e", "w", "&", "i", "d", "=">>

\* {name: 'Sushi Bar', menu: 'sushi rolls'}
SushiBar ==
    [name |-> <<"S", "u", "s", "h", "i", " ", "B", "a", "r">>,
     menu |-> <<"s", "u", "s", "h", "i", " ", "r", "o", "l", "l", "s">>]

\* {name: 'Pizza Place', menu: 'pizza, pasta'}
PizzaPlace ==
    [name |-> <<"P", "i", "z", "z", "a", " ", "P", "l", "a", "c", "e">>,
     menu |-> <<"p", "i", "z", "z", "a", ",", " ", "p", "a", "s", "t", "a">>]

\* a sheet row with every column: vibe 'Затишна', aim 'для пар', menu 'Піца, салат', an empty socials cell, a Drive photo link
Cozy ==
    [name |-> <<"C", "o", "z", "y">>,
     cuisine |-> <<"I", "t", "a", "l", "i", "a", "n">>,
     vibe |-> <<"_Z", "_a", "_t", "_y", "_sh", "_n", "_a">>,
     aim |-> <<"_d", "_l", "_ya", " ", "_p", "_a", "_r">>,
     address |-> <<"K", "y", "i", "v">>,
     socials |-> <<>>,
     menu |-> <<"_P", "_i", "_ts", "_a", ",", " ", "_s", "_a", "_l", "_a", "_t">>,
     menu_url |-> <<"h", "t", "t", "p", "s", ":", "/", "/", "c", "o", "z", "y", ".", "u", "a">>,
     photo |-> <<"h", "t", "t", "p", "s", ":", "/", "/", "d", "r", "i", "v", "e", ".", "g", "o", "o", "g", "l", "e", ".", "c", "o", "m", "/", "f", "i", "l", "e", "/", "d", "/", "A", "-", "1", "_", "b", "/", "v", "i", "e", "w">>]

\* vibe 'сімейна', aim 'діти', an empty menu, a photo that is not on Drive
FamilyCafe ==
    [name |-> <<"F", "a", "m", "i", "l", "y">>,
     vibe |-> <<"_s", "_i", "_m", "_e", "_j", "_n", "_a">>,
     aim |-> <<"_d", "_i", "_t", "_y">>,
     menu |-> <<>>,
     photo |-> <<"h", "t", "t", "p", "s", ":", "/", "/", "e", "x", "a", "m", "p", "l", "e", ".", "c", "o", "m", "/", "i", "m", "g", ".", "j", "p", "g">>]

\* 'шукаю піцу': dish піца, no category
RequestPizza == <<"_sh", "_u", "_k", "_a", "_yu", " ", "_p", "_i", "_ts", "_u">>

\* 'Романтична вечеря': category romantic, no dish
RequestRomantic == <<"_R", "_o", "_m", "_a", "_n", "_t", "_y", "_ch", "_n", "_a", " ", "_v", "_e", "_ch", "_e", "_r", "_ya">>

\* 'Сімейне побачення': categories romantic and family
RequestFamilyDate == <<"_S", "_i", "_m", "_e", "_j", "_n", "_e", " ", "_p", "_o", "_b", "_a", "_ch", "_e", "_n", "_n", "_ya">>

\* '2'
AnswerTwo == <<"2">>

\* " I'd pick option 3 because... "
AnswerOptionThree == <<" ", "I", "'", "d", " ", "p", "i", "c", "k", " ", "o", "p", "t", "i", "o", "n", " ", "3", " ", "b", "e", "c", "a", "u", "s", "e", ".", ".", ".", " ">>

\* 'no clear answer'
AnswerNoDigits == <<"n", "o", " ", "c", "l", "e", "a", "r", " ", "a", "n", "s", "w", "e", "r">>

\* '99'
AnswerNinetyNine == <<"9", "9">>

\* '0'
AnswerZero == <<"0">>

\* '-1'
AnswerMinusOne == <<"-", "1">>

\* 'I choose 1, not 2'
AnswerOne == <<"I", " ", "c", "h", "o", "o", "s", "e", " ", "1", ",", " ", "n", "o", "t", " ", "2">>

-----------------------------------------------------------------------------
(* The inputs of the model *)

\* The sheet rows a catalog is made of.
Pool == {SushiBar, PizzaPlace, Cozy, FamilyCafe}

\* update.message.text
Requests == {RequestPizza, RequestRomantic, RequestFamilyDate}

\* response.choices[0].message.content
Answers ==
    {AnswerTwo, AnswerOptionThree, AnswerNoDigits, AnswerNinetyNine, AnswerZero,
     AnswerMinusOne, AnswerOne}

-----------------------------------------------------------------------------
(* Strings *)

ToLower ==
    [ch \in {UpperLetters[i] : i \in 1..Len(UpperLetters)} |->
        LowerLetters[CHOOSE i \in 1..Len(UpperLetters) : UpperLetters[i] = ch]]

\* str.lower(), as a tuple.
Lower(s) ==
    [i \in 1..Len(s) |-> IF s[i] \in DOMAIN ToLower THEN ToLower[s[i]] ELSE s[i]]
        \o <<>>

\* keyword in text
Contains(keyword, text) ==
    \E i \in 0..(Len(text) - Len(keyword)) :
        \A j \in 1..Len(keyword) : text[i + j] = keyword[j]

\* any(keyword in text for keyword in keywords)
AnyKeywordIn(keywords, text) ==
    \E k \in 1..Len(keywords) : Contains(keywords[k], text)

\* dict.get(key, default)
Get(d, key, default) ==
    IF key \in DOMAIN d THEN d[key] ELSE default

Digits == <<"0", "1", "2", "3", "4", "5", "6", "7", "8", "9">>

IsDigit(ch) == \E i \in 1..Len(Digits) : Digits[i] = ch

DigitValue(ch) == (CHOOSE i \in 1..Len(Digits) : Digits[i] = ch) - 1

Whitespace == {" ", "\t", "\n"}

RECURSIVE Strip(_)
\* str.strip()
Strip(s) ==
    IF s = <<>> THEN s
    ELSE IF Head(s) \in Whitespace THEN Strip(Tail(s))
    ELSE IF s[Len(s)] \in Whitespace THEN Strip(SubSeq(s, 1, Len(s) - 1))
    ELSE s

\* re.findall(r'\d+', text)[0] as the pair of its first and last position, or
\* <<>> when the text holds no digit (numbers is empty).
FirstNumber(text) ==
    LET starts == {i \in 1..Len(text) : IsDigit(text[i])}
    IN  IF starts = {} THEN <<>>
        ELSE LET first == CHOOSE i \in starts : \A j \in starts : i <= j
                 last  == CHOOSE j \in first..Len(text) :
                              /\ \A k \in first..j : IsDigit(text[k])
                              /\ (j = Len(text) \/ ~IsDigit(text[j + 1]))
             IN  <<first, last>>

RECURSIVE ParseInt(_)
\* int(digits)
ParseInt(digits) ==
    IF digits = <<>> THEN 0
    ELSE 10 * ParseInt(SubSeq(digits, 1, Len(digits) - 1))
         + DigitValue(digits[Len(digits)])

-----------------------------------------------------------------------------
(* _convert_google_drive_url *)

IdChars ==
    {UpperLetters[i] : i \in 1..26} \cup {LowerLetters[i] : i \in 1..26}
        \cup {Digits[i] : i \in 1..Len(Digits)} \cup {"-", "_"}

\* re.search(r'/file/d/([a-zA-Z0-9-_]+)', url): the leftmost place where
\* '/file/d/' is followed by an id character, and the longest id from there.
DriveFileId(url) ==
    LET n      == Len(DriveFilePath)
        starts == {i \in 1..(Len(url) - n) :
                      /\ SubSeq(url, i, i + n - 1) = DriveFilePath
                      /\ url[i + n] \in IdChars}
    IN  IF starts = {} THEN <<>>
        ELSE LET at   == (CHOOSE i \in starts : \A j \in starts : i <= j) + n
                 last == CHOOSE j \in at..Len(url) :
                             /\ \A k \in at..j : url[k] \in IdChars
                             /\ (j = Len(url) \/ url[j + 1] \notin IdChars)
             IN  SubSeq(url, at, last)

ConvertGoogleDriveUrl(url) ==
    IF url = <<>> \/ ~Contains(DriveHost, url) THEN url
    ELSE IF DriveFileId(url) # <<>> THEN DriveDirectPrefix \o DriveFileId(url)
    ELSE url

-----------------------------------------------------------------------------
(* _filter_by_menu *)

\* The entries of food_keywords, in order, one of whose keywords occurs in
\* user_lower.
DishesIn(user_lower) ==
    LET Asked(entry) == AnyKeywordIn(entry.keywords, user_lower)
    IN  SelectSeq(food_keywords, Asked)

\* requested_dishes
RequestedDishes(user_request) ==
    DishesIn(Lower(user_request))

\* has_requested_dish after the loop over requested_dishes, for the lowered
\* menu text.
MenuHasDish(menu_text, requested_dishes) ==
    \E d \in 1..Len(requested_dishes) :
        AnyKeywordIn(requested_dishes[d].keywords, menu_text)

HasRequestedDish(restaurant, requested_dishes) ==
    MenuHasDish(Lower(Get(restaurant, "menu", <<>>)), requested_dishes)

\* The filter without the `if filtered_restaurants:` test of line 256.
FilterForDishesKeepEmpty(requested_dishes, restaurant_list) ==
    LET Keep(restaurant) == HasRequestedDish(restaurant, requested_dishes)
    IN  IF requested_dishes # <<>>
        THEN SelectSeq(restaurant_list, Keep)
        ELSE restaurant_list

\* Lines 235-265, once requested_dishes is known.
FilterForDishes(requested_dishes, restaurant_list) ==
    LET Keep(restaurant) == HasRequestedDish(restaurant, requested_dishes)
    IN  IF requested_dishes # <<>>
        THEN IF SelectSeq(restaurant_list, Keep) # <<>>
             THEN SelectSeq(restaurant_list, Keep)
             ELSE restaurant_list
        ELSE restaurant_list

FilterByMenu(user_request, restaurant_list) ==
    FilterForDishes(RequestedDishes(user_request), restaurant_list)

-----------------------------------------------------------------------------
(* _smart_fallback_selection *)

\* score += 5 for a category matched on both sides.
MatchScore == 5

\* random.uniform(0, 2), on the integer grid 0..JitterMax.
JitterMax == 2

\* scored_restaurants[:min(3, len(scored_restaurants))]
TopCount == 3

RestaurantText(restaurant) ==
    Lower(Get(restaurant, "vibe", <<>>) \o <<" ">>
          \o Get(restaurant, "aim", <<>>) \o <<" ">>
          \o Get(restaurant, "cuisine", <<>>))

\* The categories the lowered request and the lowered restaurant text both
\* match.
MatchedCategories(user_lower, restaurant_text) ==
    {c \in 1..Len(keywords_map) :
        /\ AnyKeywordIn(keywords_map[c].user_keywords, user_lower)
        /\ AnyKeywordIn(keywords_map[c].restaurant_keywords, restaurant_text)}

\* The score of one restaurant before the random bonus.
KeywordScore(user_request, restaurant) ==
    MatchScore
        * Cardinality(UNION {MatchedCategories(user_lower, restaurant_text) :
                                user_lower \in {Lower(user_request)},
                                restaurant_text \in {RestaurantText(restaurant)}})

RECURSIVE KeywordScoresUpTo(_, _, _)
KeywordScoresUpTo(user_request, restaurant_list, n) ==
    IF n = 0 THEN <<>>
    ELSE Append(KeywordScoresUpTo(user_request, restaurant_list, n - 1),
                KeywordScore(user_request, restaurant_list[n]))

\* The scores of the list's restaurants, in the list's order, before the
\* random bonus.
KeywordScores(user_request, restaurant_list) ==
    KeywordScoresUpTo(user_request, restaurant_list, Len(restaurant_list))

RECURSIVE ScoredUpTo(_, _, _, _)
ScoredUpTo(restaurant_list, keyword_scores, jitter, n) ==
    IF n = 0 THEN <<>>
    ELSE Append(ScoredUpTo(restaurant_list, keyword_scores, jitter, n - 1),
                [score      |-> keyword_scores[n] + jitter[n],
                 restaurant |-> restaurant_list[n]])

\* scored_restaurants before the sort; jitter[i] is the bonus
\* random.uniform draws for the i-th restaurant.
ScoredRestaurants(restaurant_list, keyword_scores, jitter) ==
    ScoredUpTo(restaurant_list, keyword_scores, jitter, Len(restaurant_list))

\* The place of the n-th item when items of one score come in reverse order.
SortedPlaceUnstable(scored, n) ==
    Cardinality({i \in 1..Len(scored) :
                    \/ scored[i].score > scored[n].score
                    \/ scored[i].score = scored[n].score /\ i >= n})

\* The place list.sort(key=lambda x: x[0], reverse=True) gives the n-th item:
\* behind the items of a higher score and, the sort being stable, behind the
\* items of its own score that came before it.
SortedPlace(scored, n) ==
    Cardinality({i \in 1..Len(scored) :
                    \/ scored[i].score > scored[n].score
                    \/ scored[i].score = scored[n].score /\ i <= n})

\* scored_restaurants after the sort.
SortByScoreDescending(scored) ==
    [place \in 1..Len(scored) |->
        scored[CHOOSE n \in 1..Len(scored) : SortedPlace(scored, n) = place]]

\* A scorer that indexes three top candidates whatever the length of the list.
SmartFallbackRaisesUnderThree(restaurant_list) ==
    Len(restaurant_list) < TopCount

\* scored_restaurants[0] on an empty list raises IndexError.
SmartFallbackRaises(restaurant_list) ==
    Len(restaurant_list) = 0

\* top_candidates = scored_restaurants[:min(3, len(scored_restaurants))]
TopCandidates(scored_restaurants) ==
    SubSeq(scored_restaurants, 1,
           IF TopCount < Len(scored_restaurants)
           THEN TopCount ELSE Len(scored_restaurants))

\* Lines 305-315: what random.choice may return once the list is sorted.
ChoicesAfterSort(restaurant_list, scored_restaurants) ==
    IF scored_restaurants[1].score > 0
    THEN {TopCandidates(scored_restaurants)[i].restaurant :
             i \in 1..Len(TopCandidates(scored_restaurants))}
    ELSE {restaurant_list[i] : i \in 1..Len(restaurant_list)}

\* What _smart_fallback_selection may return when the bonuses drawn are
\* jitter (each list is evaluated once and then used).
SelectionWithJitter(restaurant_list, keyword_scores, jitter) ==
    UNION {ChoicesAfterSort(restaurant_list, sorted) :
              sorted \in {SortByScoreDescending(scored) :
                  scored \in {ScoredRestaurants(restaurant_list, keyword_scores, jitter)}}}

\* The bonuses random.uniform may draw for a list.
Jitters(restaurant_list) ==
    [1..Len(restaurant_list) -> 0..JitterMax]

\* The restaurants _smart_fallback_selection may return for a non-empty list.
SmartFallbackSelection(user_request, restaurant_list) ==
    UNION {SelectionWithJitter(restaurant_list, keyword_scores, jitter) :
              keyword_scores \in {KeywordScores(user_request, restaurant_list)},
              jitter \in Jitters(restaurant_list)}

-----------------------------------------------------------------------------
(* The result dictionaries *)

\* Lines 184-200: the dictionary get_recommendation returns.
RecommendationDict(chosen_restaurant) ==
    [name     |-> Get(chosen_restaurant, "name", PlaceholderName),
     address  |-> Get(chosen_restaurant, "address", PlaceholderAddress),
     socials  |-> Get(chosen_restaurant, "socials", PlaceholderSocials),
     vibe     |-> Get(chosen_restaurant, "vibe", PlaceholderVibe),
     aim      |-> Get(chosen_restaurant, "aim", PlaceholderAim),
     cuisine  |-> Get(chosen_restaurant, "cuisine", PlaceholderCuisine),
     menu     |-> Get(chosen_restaurant, "menu", <<>>),
     menu_url |-> Get(chosen_restaurant, "menu_url", <<>>),
     photo    |-> ConvertGoogleDriveUrl(Get(chosen_restaurant, "photo", <<>>))]

\* The fallback dictionary with the address read from the name column.
FallbackSelectionDictSlip(chosen) ==
    [name     |-> Get(chosen, "name", PlaceholderName),
     address  |-> Get(chosen, "name", PlaceholderAddress),
     socials  |-> Get(chosen, "socials", PlaceholderSocials),
     vibe     |-> Get(chosen, "vibe", PlaceholderVibe),
     aim      |-> Get(chosen, "aim", PlaceholderAim),
     cuisine  |-> Get(chosen, "cuisine", PlaceholderCuisine),
     menu     |-> Get(chosen, "menu", <<>>),
     menu_url |-> Get(chosen, "menu_url", <<>>),
     photo    |-> ConvertGoogleDriveUrl(Get(chosen, "photo", <<>>))]

\* Lines 321-336: the dictionary _fallback_selection_dict returns for chosen.
FallbackSelectionDict(chosen) ==
    [name     |-> Get(chosen, "name", PlaceholderName),
     address  |-> Get(chosen, "address", PlaceholderAddress),
     socials  |-> Get(chosen, "socials", PlaceholderSocials),
     vibe     |-> Get(chosen, "vibe", PlaceholderVibe),
     aim      |-> Get(chosen, "aim", PlaceholderAim),
     cuisine  |-> Get(chosen, "cuisine", PlaceholderCuisine),
     menu     |-> Get(chosen, "menu", <<>>),
     menu_url |-> Get(chosen, "menu_url", <<>>),
     photo    |-> ConvertGoogleDriveUrl(Get(chosen, "photo", <<>>))]

-----------------------------------------------------------------------------
(* The state *)

\* The lists of at most n rows of the pool, no row twice.
Rows(n) ==
    UNION {{rows \in [1..k -> Pool] :
               \A i, j \in 1..k : rows[i] = rows[j] => i = j} : k \in 0..n}

\* worksheet.get_all_records()
Catalogs == Rows(MaxCatalog)

VARIABLES
    restaurants_data,      \* self.restaurants_data
    openai_client,         \* the global: "None" or "openai"
    reloads,               \* how many times init_google_sheets replaced the catalog
    pc,                    \* the call: "idle", "waiting", "returned", "raised"
    user_request,          \* its request text
    snapshot,              \* the list self.restaurants_data held when it was copied
    shuffled_restaurants,  \* the shuffled copy
    filtered_restaurants,  \* what _filter_by_menu returned
    thread,                \* its to_thread worker: "none", "running", "finished", "detached"
    response,              \* what the awaited future holds
    timed_out,             \* whether wait_for raised TimeoutError in this call
    path,                  \* how the call ended
    chosen_restaurant,     \* the record chosen
    result,                \* what get_recommendation returned
    late_threads,          \* worker threads of timed-out calls that still run
    fallback_jitter,       \* the bonuses drawn, where _smart_fallback_selection is applied alone
    user_states,           \* the global dictionary user_states
    update,                \* the update the application handles, or handled last
    served_since_start,    \* per user, the recommendations sent since the user's last /start
    photo_url,             \* a photo cell, where _convert_google_drive_url is applied alone
    conversions            \* what the successive conversions of photo_url returned

vars ==
    <<restaurants_data, openai_client, reloads, pc, user_request, snapshot,
      shuffled_restaurants, filtered_restaurants, thread, response, timed_out,
      path, chosen_restaurant, result, late_threads, fallback_jitter>>

\* What handle_message and start keep beside a call of get_recommendation.
session_vars == <<user_states, update, served_since_start>>

url_vars == <<photo_url, conversions>>

all_vars == <<vars, session_vars, url_vars>>

Pending == [kind |-> "pending"]
ErrorResponse == [kind |-> "error"]
AnswerResponse(text) == [kind |-> "answer", text |-> text]

NoResult == [kind |-> "none"]
ReturnedNone == [kind |-> "None"]
ReturnedDict(d) == [kind |-> "dict", value |-> d]

NoRestaurant == [kind |-> "none"]
Restaurant(r) == [kind |-> "restaurant", value |-> r]

\* The variables of a call before it starts.
CallIdle ==
    /\ pc = "idle"
    /\ user_request = <<>>
    /\ snapshot = <<>>
    /\ shuffled_restaurants = <<>>
    /\ filtered_restaurants = <<>>
    /\ thread = "none"
    /\ response = Pending
    /\ timed_out = FALSE
    /\ path = "none"
    /\ chosen_restaurant = NoRestaurant
    /\ result = NoResult

\* The telegram users of the model, by user id.
Users == {101, 202}

\* user_states: Dict[int, str] = {} (line 29)
EmptyStates == [user_id \in {} |-> "waiting_request"]

\* What the application knows of an update: who sent it, whether its handler
\* awaits get_recommendation or has ended, how many times the handler called
\* get_recommendation, how it ended and what it sent last.
Update(kind, user_id, at, calls, outcome, sent) ==
    [kind |-> kind, user_id |-> user_id, at |-> at, calls |-> calls,
     outcome |-> outcome, sent |-> sent]

NoUpdate == Update("none", 0, "done", 0, "none", "nothing")

\* No update has arrived.
SessionIdle ==
    /\ user_states = EmptyStates
    /\ update = NoUpdate
    /\ served_since_start = [user_id \in Users |-> 0]

\* No photo cell is being converted.
UrlIdle ==
    /\ photo_url = <<>>
    /\ conversions = <<>>

\* A step of get_recommendation leaves the session and the photo cell alone.
OutsideCall == UNCHANGED <<session_vars, url_vars>>

Init ==
    /\ restaurants_data \in Catalogs
    /\ openai_client = "None"
    /\ reloads = 0
    /\ late_threads = 0
    /\ fallback_jitter = <<>>
    /\ CallIdle
    /\ SessionIdle
    /\ UrlIdle

-----------------------------------------------------------------------------
(* get_recommendation *)

\* The shuffle without .copy(): the catalog itself is shuffled.
ShuffledInPlace(data, order) ==
    [source   |-> [i \in 1..Len(data) |-> data[order[i]]],
     shuffled |-> [i \in 1..Len(data) |-> data[order[i]]]]

\* shuffled_restaurants = self.restaurants_data.copy(); random.shuffle(shuffled_restaurants):
\* what the source list and the local list hold afterwards, order[i] being
\* the position the shuffle draws for place i.
ShuffledCopy(data, order) ==
    [source   |-> data,
     shuffled |-> [i \in 1..Len(data) |-> data[order[i]]]]

\* if not self.restaurants_data
CatalogEmpty(data) == Len(data) = 0

\* choice_num = int(numbers[0]) - 1, where numbers is not empty.
ChoiceNum(choice_text) ==
    ParseInt(SubSeq(choice_text, FirstNumber(choice_text)[1],
                    FirstNumber(choice_text)[2])) - 1

\* The index test without its lower bound.
IndexAcceptedNoLowerBound(choice_num, filtered) ==
    choice_num < Len(filtered)

\* if 0 <= choice_num < len(filtered_restaurants)
IndexAccepted(choice_num, filtered) ==
    0 <= choice_num /\ choice_num < Len(filtered)

\* list[index], Python's indexing: a negative index counts from the end.
ListItem(list, index) ==
    IF index >= 0 THEN list[index + 1] ELSE list[Len(list) + index + 1]

\* A call starts when the one before it has ended.
CanBegin ==
    /\ pc # "waiting"
    /\ late_threads < MaxLateThreads

\* What a starting call leaves of the call before it.
BeginFrame(request) ==
    /\ user_request' = request
    /\ timed_out' = FALSE
    /\ response' = Pending
    /\ UNCHANGED <<reloads, late_threads, fallback_jitter>>

\* The two except clauses, which both return self._fallback_selection_dict(user_request):
\* the scorer runs over self.restaurants_data as it is now, and its IndexError
\* on an empty list leaves the call.
ExceptionHandler(request, how) ==
    /\ path' = how
    /\ IF SmartFallbackRaises(restaurants_data)
       THEN /\ pc' = "raised"
            /\ chosen_restaurant' = NoRestaurant
            /\ result' = NoResult
       ELSE \E chosen \in SmartFallbackSelection(request, restaurants_data) :
            /\ pc' = "returned"
            /\ chosen_restaurant' = Restaurant(chosen)
            /\ result' = ReturnedDict(FallbackSelectionDict(chosen))

\* Lines 82-89 when `import openai` raises: the client stays None and the
\* except clause of line 205 runs.
BeginInitFails(request) ==
    /\ CanBegin
    /\ openai_client = "None"
    /\ BeginFrame(request)
    /\ ExceptionHandler(request, "init_failed")
    /\ snapshot' = <<>>
    /\ shuffled_restaurants' = <<>>
    /\ filtered_restaurants' = <<>>
    /\ thread' = "none"
    /\ UNCHANGED <<restaurants_data, openai_client>>

\* Lines 82-93 on an empty catalog: return None.
BeginEmpty(request) ==
    /\ CanBegin
    /\ CatalogEmpty(restaurants_data)
    /\ BeginFrame(request)
    /\ openai_client' = "openai"
    /\ pc' = "returned"
    /\ path' = "empty"
    /\ chosen_restaurant' = NoRestaurant
    /\ result' = ReturnedNone
    /\ snapshot' = <<>>
    /\ shuffled_restaurants' = <<>>
    /\ filtered_restaurants' = <<>>
    /\ thread' = "none"
    /\ UNCHANGED restaurants_data

\* Lines 82-161 on a non-empty catalog, up to the await: copy, shuffle,
\* filter, build the prompt, start the worker thread.
BeginRanking(request, order) ==
    /\ CanBegin
    /\ ~CatalogEmpty(restaurants_data)
    /\ BeginFrame(request)
    /\ \E copy \in {ShuffledCopy(restaurants_data, order)} :
           /\ restaurants_data' = copy.source
           /\ snapshot' = restaurants_data
           /\ shuffled_restaurants' = copy.shuffled
           /\ filtered_restaurants' = FilterByMenu(request, copy.shuffled)
    /\ openai_client' = "openai"
    /\ thread' = "running"
    /\ pc' = "waiting"
    /\ path' = "none"
    /\ chosen_restaurant' = NoRestaurant
    /\ result' = NoResult

\* make_openai_request returns or raises in its worker thread while the call
\* awaits it: the future takes the outcome.
ThreadReturns(outcome) ==
    /\ thread = "running"
    /\ pc = "waiting"
    /\ thread' = "finished"
    /\ response' = outcome
    /\ UNCHANGED <<restaurants_data, openai_client, reloads, pc, user_request,
                   snapshot, shuffled_restaurants, filtered_restaurants, timed_out,
                   path, chosen_restaurant, result, late_threads, fallback_jitter>>

\* The worker thread of a call that timed out returns or raises: its future
\* was cancelled, the outcome goes nowhere.
LateThreadReturns(outcome) ==
    /\ late_threads > 0
    /\ late_threads' = late_threads - 1
    /\ UNCHANGED <<restaurants_data, openai_client, reloads, pc, user_request,
                   snapshot, shuffled_restaurants, filtered_restaurants, thread,
                   response, timed_out, path, chosen_restaurant, result,
                   fallback_jitter>>

\* Lines 163-200: the await delivered an answer. An IndexError of the scorer
\* on an empty filtered list would be caught at line 205.
ResumeAnswer ==
    /\ pc = "waiting"
    /\ response.kind = "answer"
    /\ \E choice_text \in {Strip(response.text)} :
           IF FirstNumber(choice_text) # <<>>
              /\ IndexAccepted(ChoiceNum(choice_text), filtered_restaurants)
           THEN \E chosen \in {ListItem(filtered_restaurants, ChoiceNum(choice_text))} :
                /\ pc' = "returned"
                /\ path' = "ranked"
                /\ chosen_restaurant' = Restaurant(chosen)
                /\ result' = ReturnedDict(RecommendationDict(chosen))
           ELSE IF SmartFallbackRaises(filtered_restaurants)
                THEN ExceptionHandler(user_request, "error")
                ELSE \E chosen \in SmartFallbackSelection(user_request,
                                                          filtered_restaurants) :
                     /\ pc' = "returned"
                     /\ path' = "rejected"
                     /\ chosen_restaurant' = Restaurant(chosen)
                     /\ result' = ReturnedDict(RecommendationDict(chosen))
    /\ UNCHANGED <<restaurants_data, openai_client, reloads, user_request, snapshot,
                   shuffled_restaurants, filtered_restaurants, thread, response,
                   timed_out, late_threads, fallback_jitter>>

\* Lines 205-207: the await raised what the ranking call raised.
ResumeError ==
    /\ pc = "waiting"
    /\ response.kind = "error"
    /\ ExceptionHandler(user_request, "error")
    /\ UNCHANGED <<restaurants_data, openai_client, reloads, user_request, snapshot,
                   shuffled_restaurants, filtered_restaurants, thread, response,
                   timed_out, late_threads, fallback_jitter>>

\* A timeout that is noted while the call goes on awaiting the answer.
TimeoutKeepsWaiting ==
    /\ pc = "waiting"
    /\ thread = "running"
    /\ ~timed_out
    /\ timed_out' = TRUE
    /\ UNCHANGED <<restaurants_data, openai_client, reloads, pc, user_request,
                   snapshot, shuffled_restaurants, filtered_restaurants, thread,
                   response, path, chosen_restaurant, result, late_threads,
                   fallback_jitter>>

\* Lines 158-161 and 202-204: 20 seconds passed with no outcome; wait_for
\* cancels the future, leaves the worker thread running and raises
\* TimeoutError.
TimeoutFires ==
    /\ pc = "waiting"
    /\ thread = "running"
    /\ timed_out' = TRUE
    /\ thread' = "detached"
    /\ late_threads' = late_threads + 1
    /\ ExceptionHandler(user_request, "timeout")
    /\ UNCHANGED <<restaurants_data, openai_client, reloads, user_request, snapshot,
                   shuffled_restaurants, filtered_restaurants, response,
                   fallback_jitter>>

\* Lines 72-73 of init_google_sheets: the catalog is replaced by the rows read.
Reload(records) ==
    /\ reloads < MaxReloads
    /\ reloads' = reloads + 1
    /\ restaurants_data' = records
    /\ UNCHANGED <<openai_client, pc, user_request, snapshot, shuffled_restaurants,
                   filtered_restaurants, thread, response, timed_out, path,
                   chosen_restaurant, result, late_threads, fallback_jitter>>

Next ==
    \/ \E request \in Requests : BeginInitFails(request) /\ OutsideCall
    \/ \E request \in Requests : BeginEmpty(request) /\ OutsideCall
    \/ \E request \in Requests :
       \E order \in Permutations(1..Len(restaurants_data)) :
           BeginRanking(request, order) /\ OutsideCall
    \/ \E text \in Answers : ThreadReturns(AnswerResponse(text)) /\ OutsideCall
    \/ ThreadReturns(ErrorResponse) /\ OutsideCall
    \/ \E text \in Answers : LateThreadReturns(AnswerResponse(text)) /\ OutsideCall
    \/ LateThreadReturns(ErrorResponse) /\ OutsideCall
    \/ ResumeAnswer /\ OutsideCall
    \/ ResumeError /\ OutsideCall
    \/ TimeoutFires /\ OutsideCall

\* _smart_fallback_selection applied alone to filtered_restaurants, with the
\* bonuses of fallback_jitter.
ApplyFallback ==
    /\ pc = "idle"
    /\ filtered_restaurants # <<>>
    /\ \E chosen \in SelectionWithJitter(
                         filtered_restaurants,
                         KeywordScores(user_request, filtered_restaurants),
                         fallback_jitter) :
           chosen_restaurant' = Restaurant(chosen)
    /\ pc' = "returned"
    /\ path' = "fallback"
    /\ UNCHANGED <<restaurants_data, openai_client, reloads, user_request, snapshot,
                   shuffled_restaurants, filtered_restaurants, thread, response,
                   timed_out, result, late_threads, fallback_jitter>>

NextWithReload ==
    \/ Next
    \/ \E records \in Rows(MaxReloadRows) : Reload(records) /\ OutsideCall

\* One catalog for the whole behaviour.
Spec == Init /\ [][Next]_vars

\* The catalog may be reloaded while a call is in flight.
SpecReload == Init /\ [][NextWithReload]_vars

\* The scorer on every request, every list of rows of the pool and every
\* draw of bonuses.
InitFallback ==
    /\ restaurants_data = <<>>
    /\ openai_client = "None"
    /\ reloads = 0
    /\ late_threads = 0
    /\ pc = "idle"
    /\ user_request \in Requests
    /\ snapshot = <<>>
    /\ shuffled_restaurants = <<>>
    /\ filtered_restaurants \in Rows(Cardinality(Pool)) \ {<<>>}
    /\ fallback_jitter \in Jitters(filtered_restaurants)
    /\ thread = "none"
    /\ response = Pending
    /\ timed_out = FALSE
    /\ path = "none"
    /\ chosen_restaurant = NoRestaurant
    /\ result = NoResult
    /\ SessionIdle
    /\ UrlIdle

SpecFallback == InitFallback /\ [][ApplyFallback /\ OutsideCall]_vars

\* The event loop runs a call that can go on: the timer of wait_for fires,
\* and a delivered outcome resumes the call. Nothing makes the ranking call
\* answer.
FairSpec ==
    Spec /\ WF_vars(TimeoutFires) /\ WF_vars(ResumeAnswer) /\ WF_vars(ResumeError)

-----------------------------------------------------------------------------
(* start and handle_message *)

\* user_states[user_id] = "waiting_request"
SetState(states, user_id) ==
    [id \in DOMAIN states \cup {user_id} |->
        IF id = user_id THEN "waiting_request" ELSE states[id]]

\* The entry is left where it is.
DeleteStateKeeps(states, user_id) == states

\* del user_states[user_id]
DeleteState(states, user_id) ==
    [id \in DOMAIN states \ {user_id} |-> states[id]]

\* photo_url.startswith('http')
StartsWithHttp(text) ==
    Len(text) >= 4 /\ SubSeq(text, 1, 4) = <<"h", "t", "t", "p">>

\* The application handles the next update when the handler of the one
\* before it has ended.
CanHandle == update.at = "done"

\* One more recommendation sent to the user since the user's last /start.
ServedOnceMore(served, user_id) ==
    [served EXCEPT ![user_id] = IF @ < MaxServed THEN @ + 1 ELSE @]

\* start (lines 340-355): the entry is written before the greeting is sent,
\* whether or not reply_text raises.
Start(user_id) ==
    /\ CanHandle
    /\ user_states' = SetState(user_states, user_id)
    /\ served_since_start' = [served_since_start EXCEPT ![user_id] = 0]
    /\ update' = Update("start", user_id, "done", 0, "started", "greeting")
    /\ UNCHANGED <<vars, url_vars>>

\* handle_message, lines 359-364: no entry for the user; the hint to write
\* /start is sent and the handler returns.
MessageWithoutStart(user_id) ==
    /\ CanHandle
    /\ user_id \notin DOMAIN user_states
    /\ update' = Update("message", user_id, "done", 0, "not_started", "hint")
    /\ UNCHANGED <<vars, user_states, served_since_start, url_vars>>

\* Lines 359-370 when reply_text raises at line 370: the handler ends there
\* and the error handler logs the exception.
MessageReplyFails(user_id) ==
    /\ CanHandle
    /\ user_id \in DOMAIN user_states
    /\ update' = Update("message", user_id, "done", 0, "reply_failed", "nothing")
    /\ UNCHANGED <<vars, user_states, served_since_start, url_vars>>

\* Lines 359-373: the user has an entry, the "searching" message is sent and
\* get_recommendation is called with the text of the message; the step goes
\* on with the beginning of the call.
MessageCalls(user_id) ==
    /\ CanHandle
    /\ user_id \in DOMAIN user_states
    /\ update' = Update("message", user_id, "awaiting", 1, "pending", "searching")
    /\ UNCHANGED <<user_states, served_since_start, url_vars>>

\* The handler whose call of get_recommendation has ended.
CallEnded(how) ==
    /\ update.kind = "message"
    /\ update.at = "awaiting"
    /\ pc = how

\* How the handler of the update ends.
Ends(outcome, sent) ==
    update' = Update("message", update.user_id, "done", update.calls, outcome, sent)

\* Line 373 when get_recommendation raises: the handler ends there.
MessageCallRaised ==
    /\ CallEnded("raised")
    /\ Ends("raised", "searching")
    /\ UNCHANGED <<vars, user_states, served_since_start, url_vars>>

\* Line 376 when processing_message.delete() raises.
MessageDeleteFails ==
    /\ CallEnded("returned")
    /\ Ends("delete_failed", "searching")
    /\ UNCHANGED <<vars, user_states, served_since_start, url_vars>>

\* Lines 376-415 and 421-423: the recommendation is sent as a photo with a
\* caption, as a text with the photo link after reply_photo raised, or as a
\* text; then the entry of the user is deleted. What reply_text does at line
\* 423 changes nothing.
MessageServed(sent) ==
    /\ CallEnded("returned")
    /\ result.kind = "dict"
    /\ IF result.value.photo # <<>> /\ StartsWithHttp(result.value.photo)
       THEN sent \in {"photo", "photo_link"}
       ELSE sent = "text"
    /\ Ends("served", sent)
    /\ served_since_start' = ServedOnceMore(served_since_start, update.user_id)
    /\ user_states' = DeleteState(user_states, update.user_id)
    /\ UNCHANGED <<vars, url_vars>>

\* Lines 376-418 and 421-423: get_recommendation returned None, the apology
\* is sent and the entry of the user is deleted.
MessageApologised ==
    /\ CallEnded("returned")
    /\ result.kind = "None"
    /\ Ends("apologised", "apology")
    /\ user_states' = DeleteState(user_states, update.user_id)
    /\ UNCHANGED <<vars, served_since_start, url_vars>>

\* Lines 411, 415 and 418 when reply_text raises: the handler ends before
\* line 422.
MessageSendFails ==
    /\ CallEnded("returned")
    /\ Ends("send_failed", "nothing")
    /\ UNCHANGED <<vars, user_states, served_since_start, url_vars>>

NextSession ==
    \/ \E user_id \in Users : Start(user_id)
    \/ \E user_id \in Users : MessageWithoutStart(user_id)
    \/ \E user_id \in Users : MessageReplyFails(user_id)
    \/ \E user_id \in Users : \E request \in Requests :
           MessageCalls(user_id) /\ BeginInitFails(request)
    \/ \E user_id \in Users : \E request \in Requests :
           MessageCalls(user_id) /\ BeginEmpty(request)
    \/ \E user_id \in Users : \E request \in Requests :
       \E order \in Permutations(1..Len(restaurants_data)) :
           MessageCalls(user_id) /\ BeginRanking(request, order)
    \/ \E text \in Answers : ThreadReturns(AnswerResponse(text)) /\ OutsideCall
    \/ ThreadReturns(ErrorResponse) /\ OutsideCall
    \/ \E text \in Answers : LateThreadReturns(AnswerResponse(text)) /\ OutsideCall
    \/ LateThreadReturns(ErrorResponse) /\ OutsideCall
    \/ ResumeAnswer /\ OutsideCall
    \/ ResumeError /\ OutsideCall
    \/ TimeoutFires /\ OutsideCall
    \/ MessageCallRaised
    \/ MessageDeleteFails
    \/ \E sent \in {"photo", "photo_link", "text"} : MessageServed(sent)
    \/ MessageApologised
    \/ MessageSendFails

InitSession ==
    /\ restaurants_data \in Rows(MaxSessionCatalog)
    /\ openai_client = "None"
    /\ reloads = 0
    /\ late_threads = 0
    /\ fallback_jitter = <<>>
    /\ CallIdle
    /\ SessionIdle
    /\ UrlIdle

\* The updates of several users, handled one at a time.
SpecSession == InitSession /\ [][NextSession]_all_vars

-----------------------------------------------------------------------------
(* _convert_google_drive_url applied alone *)

\* The scheme and host of a photo cell: none, 'https://drive.google.com',
\* 'http://drive.google.com', 'https://example.com', 'https://docs.google.com'
UrlHeads ==
    {<<>>,
     <<"h", "t", "t", "p", "s", ":", "/", "/", "d", "r", "i", "v", "e", ".", "g", "o", "o", "g", "l", "e", ".", "c", "o", "m">>,
     <<"h", "t", "t", "p", ":", "/", "/", "d", "r", "i", "v", "e", ".", "g", "o", "o", "g", "l", "e", ".", "c", "o", "m">>,
     <<"h", "t", "t", "p", "s", ":", "/", "/", "e", "x", "a", "m", "p", "l", "e", ".", "c", "o", "m">>,
     <<"h", "t", "t", "p", "s", ":", "/", "/", "d", "o", "c", "s", ".", "g", "o", "o", "g", "l", "e", ".", "c", "o", "m">>}

\* Its path: none, '/file/d/A-1_b/view', '/file/d/abc', '/file/d/',
\* '/open?id=abc', '/uc?export=view&id=abc', '/img.jpg', '/file/d//file/d/x'
UrlPaths ==
    {<<>>,
     <<"/", "f", "i", "l", "e", "/", "d", "/", "A", "-", "1", "_", "b", "/", "v", "i", "e", "w">>,
     <<"/", "f", "i", "l", "e", "/", "d", "/", "a", "b", "c">>,
     <<"/", "f", "i", "l", "e", "/", "d", "/">>,
     <<"/", "o", "p", "e", "n", "?", "i", "d", "=", "a", "b", "c">>,
     <<"/", "u", "c", "?", "e", "x", "p", "o", "r", "t", "=", "v", "i", "e", "w", "&", "i", "d", "=", "a", "b", "c">>,
     <<"/", "i", "m", "g", ".", "j", "p", "g">>,
     <<"/", "f", "i", "l", "e", "/", "d", "/", "/", "f", "i", "l", "e", "/", "d", "/", "x">>}

\* Its query: none, '?usp=sharing', '?ref=drive.google.com'
UrlTails ==
    {<<>>,
     <<"?", "u", "s", "p", "=", "s", "h", "a", "r", "i", "n", "g">>,
     <<"?", "r", "e", "f", "=", "d", "r", "i", "v", "e", ".", "g", "o", "o", "g", "l", "e", ".", "c", "o", "m">>}

\* The photo cells of the sheet: chosen_restaurant.get('photo', '')
PhotoUrls ==
    {url_head \o url_path \o url_tail :
        url_head \in UrlHeads, url_path \in UrlPaths, url_tail \in UrlTails}

InitUrl ==
    /\ restaurants_data = <<>>
    /\ openai_client = "None"
    /\ reloads = 0
    /\ late_threads = 0
    /\ fallback_jitter = <<>>
    /\ CallIdle
    /\ SessionIdle
    /\ photo_url \in PhotoUrls
    /\ conversions = <<>>

\* self._convert_google_drive_url(photo_url), then the same on what it returned.
ConvertPhotoUrl ==
    /\ Len(conversions) < MaxConversions
    /\ conversions' =
           Append(conversions,
                  ConvertGoogleDriveUrl(IF conversions = <<>> THEN photo_url
                                        ELSE conversions[Len(conversions)]))
    /\ UNCHANGED <<vars, session_vars, photo_url>>

\* The conversion on every photo cell.
SpecUrl == InitUrl /\ [][ConvertPhotoUrl]_all_vars


-----------------------------------------------------------------------------
(* Properties of get_recommendation *)

\* The restaurants of a list.
Elements(list) == {Restaurant(list[i]) : i \in 1..Len(list)}

\* value is what the record holds under key, or the placeholder of a record
\* without that key.
FieldOf(value, record, key, placeholder) ==
    IF key \in DOMAIN record THEN value = record[key] ELSE value = placeholder

\* The dictionary d shows the record: its columns or their placeholders, the
\* photo link as it is or converted to a direct link.
DrawnFrom(d, record) ==
    /\ FieldOf(d.name, record, "name", PlaceholderName)
    /\ FieldOf(d.address, record, "address", PlaceholderAddress)
    /\ FieldOf(d.socials, record, "socials", PlaceholderSocials)
    /\ FieldOf(d.vibe, record, "vibe", PlaceholderVibe)
    /\ FieldOf(d.aim, record, "aim", PlaceholderAim)
    /\ FieldOf(d.cuisine, record, "cuisine", PlaceholderCuisine)
    /\ FieldOf(d.menu, record, "menu", <<>>)
    /\ FieldOf(d.menu_url, record, "menu_url", <<>>)
    /\ \/ FieldOf(d.photo, record, "photo", <<>>)
       \/ /\ "photo" \in DOMAIN record
          /\ d.photo = ConvertGoogleDriveUrl(record.photo)

\* C1: whenever get_recommendation has returned a dictionary, all its fields
\* are those of one record of restaurants_data, the record chosen, with the
\* placeholder for a missing column and the photo link possibly converted.
C1_ResultFromOneRecord ==
    result.kind = "dict" =>
        \E i \in 1..Len(restaurants_data) :
            /\ chosen_restaurant = Restaurant(restaurants_data[i])
            /\ DrawnFrom(result.value, restaurants_data[i])

\* A call over a catalog of several records timed out and returned a record
\* without address, whose photo link was converted.
C1_Witness ==
    /\ pc = "returned"
    /\ path = "timeout"
    /\ result.kind = "dict"
    /\ Len(restaurants_data) >= 2
    /\ \E i \in 1..Len(restaurants_data) :
           /\ chosen_restaurant = Restaurant(restaurants_data[i])
           /\ "socials" \notin DOMAIN restaurants_data[i]
           /\ result.value.socials = PlaceholderSocials

\* C2: when the call ends on the fallback scorer (timeout, call error,
\* rejected answer), the record chosen is one of the menu-filtered
\* candidates.
C2_FallbackWithinFiltered ==
    (pc = "returned" /\ path \in {"timeout", "error", "rejected"}) =>
        chosen_restaurant \in Elements(filtered_restaurants)

\* C3: with an empty catalog a call that has ended has returned None: it has
\* not raised and has returned no dictionary.
C3_EmptyCatalogReturnsNone ==
    (restaurants_data = <<>> /\ pc \in {"returned", "raised"}) =>
        (pc = "returned" /\ result = ReturnedNone)

\* C4: with a non-empty catalog no call raises or returns None; a call that
\* has ended returned a dictionary, and one that ended on a ranking failure
\* returned the dictionary of a record the fallback scorer was given.
C4_FailuresAbsorbed ==
    restaurants_data # <<>> =>
        /\ pc # "raised"
        /\ result # ReturnedNone
        /\ pc = "returned" => result.kind = "dict"
        /\ (pc = "returned" /\ path \in {"timeout", "error", "init_failed"}) =>
               /\ chosen_restaurant \in Elements(restaurants_data)
               /\ DrawnFrom(result.value, chosen_restaurant.value)
        /\ (pc = "returned" /\ path = "rejected") =>
               /\ chosen_restaurant \in Elements(filtered_restaurants)
               /\ DrawnFrom(result.value, chosen_restaurant.value)

\* The ranking call raised and the call returned a dictionary all the same.
C4_Witness ==
    /\ restaurants_data # <<>>
    /\ pc = "returned"
    /\ path = "error"
    /\ response = ErrorResponse
    /\ result.kind = "dict"

\* The positions of the decimal digits of a text.
DigitPlaces(text) == {i \in 1..Len(text) : IsDigit(text[i])}

\* The number the first run of decimal digits of a text writes.
FirstRunValue(text) ==
    LET first  == CHOOSE i \in DigitPlaces(text) : \A j \in DigitPlaces(text) : i <= j
        after  == {j \in first..Len(text) : ~IsDigit(text[j])}
        last   == IF after = {} THEN Len(text)
                  ELSE (CHOOSE j \in after : \A k \in after : j <= k) - 1
        value[j \in (first - 1)..last] ==
            IF j < first THEN 0 ELSE 10 * value[j - 1] + DigitValue(text[j])
    IN  value[last]

\* C5: a call that ended on an answer read the first run of digits as n: with
\* 1 <= n <= Len(filtered_restaurants) it returned filtered_restaurants[n];
\* with no digits, n = 0 or n beyond the list it went to the fallback scorer
\* over filtered_restaurants.
C5_FirstNumberSelects ==
    (pc = "returned" /\ response.kind = "answer") =>
        IF /\ DigitPlaces(response.text) # {}
           /\ 1 <= FirstRunValue(response.text)
           /\ FirstRunValue(response.text) <= Len(filtered_restaurants)
        THEN /\ path = "ranked"
             /\ chosen_restaurant =
                    Restaurant(filtered_restaurants[FirstRunValue(response.text)])
             /\ DrawnFrom(result.value,
                          filtered_restaurants[FirstRunValue(response.text)])
        ELSE /\ path = "rejected"
             /\ chosen_restaurant \in Elements(filtered_restaurants)

\* The answer " I'd pick option 3 because... " chose the third of three
\* candidates.
C5_Witness ==
    /\ pc = "returned"
    /\ path = "ranked"
    /\ response = AnswerResponse(AnswerOptionThree)
    /\ Len(filtered_restaurants) = 3
    /\ chosen_restaurant = Restaurant(filtered_restaurants[3])

\* The entries of food_keywords a request names.
DetectedDishes(request) ==
    {d \in 1..Len(food_keywords) :
        AnyKeywordIn(food_keywords[d].keywords, Lower(request))}

\* The places of a list whose menu holds a keyword of one of the dishes.
MenuMatches(dishes, list) ==
    {i \in 1..Len(list) :
        "menu" \in DOMAIN list[i]
        /\ \E d \in dishes :
               AnyKeywordIn(food_keywords[d].keywords, Lower(list[i].menu))}

\* C6: _filter_by_menu on the shuffled list: when the request names a dish
\* and some candidate's menu holds it, filtered_restaurants is the matching
\* candidates in their order; otherwise it is the shuffled list; it is never
\* empty.
C6_FilterKeepsMatchesInOrder ==
    shuffled_restaurants # <<>> =>
        /\ filtered_restaurants # <<>>
        /\ \E matching \in {MenuMatches(DetectedDishes(user_request),
                                        shuffled_restaurants)} :
               IF matching # {}
               THEN /\ Len(filtered_restaurants) = Cardinality(matching)
                    /\ \A i \in matching :
                           filtered_restaurants[Cardinality({j \in matching : j <= i})]
                               = shuffled_restaurants[i]
               ELSE filtered_restaurants = shuffled_restaurants

\* The filter kept two of three candidates, in the order of a shuffle that
\* moved them.
C6_Witness ==
    /\ pc = "waiting"
    /\ Len(shuffled_restaurants) = 3
    /\ Len(filtered_restaurants) = 2
    /\ shuffled_restaurants # restaurants_data
    /\ filtered_restaurants[1] = shuffled_restaurants[2]
    /\ filtered_restaurants[2] = shuffled_restaurants[3]

\* The categories of keywords_map a request names.
RequestCategories(request) ==
    {c \in 1..Len(keywords_map) :
        AnyKeywordIn(keywords_map[c].user_keywords, Lower(request))}

\* The places of a list whose restaurant matches a category of the request.
CategoryMatches(request, list) ==
    {i \in 1..Len(list) :
        \E c \in RequestCategories(request) :
            AnyKeywordIn(keywords_map[c].restaurant_keywords,
                         RestaurantText(list[i]))}

\* The scorer has run with all bonuses zero on a request of one category and
\* a list with one restaurant of that category.
UniqueMatchCase ==
    /\ pc = "returned"
    /\ path = "fallback"
    /\ \A i \in DOMAIN fallback_jitter : fallback_jitter[i] = 0
    /\ Cardinality(RequestCategories(user_request)) = 1
    /\ Cardinality(CategoryMatches(user_request, filtered_restaurants)) = 1

\* The place of that restaurant.
UniqueMatch ==
    CHOOSE i \in CategoryMatches(user_request, filtered_restaurants) : TRUE

\* C7 as stated: with zero bonuses, one category in the request and one
\* restaurant of that category in the list, the scorer returns that
\* restaurant.
C7_UniqueMatchSelected ==
    UniqueMatchCase =>
        chosen_restaurant = Restaurant(filtered_restaurants[UniqueMatch])

\* C7: with zero bonuses, one category in the request and one restaurant of
\* that category in the list, the scorer returns one of the three restaurants
\* the stable sort puts first: that restaurant or one of the first two others
\* in the list's order; in a list of one it returns that restaurant.
C7_UniqueMatchAmongTopThree ==
    UniqueMatchCase =>
        \E others \in {(1..Len(filtered_restaurants)) \ {UniqueMatch}} :
            \E i \in {UniqueMatch}
                       \cup {k \in others :
                                Cardinality({j \in others : j < k}) < TopCount - 1} :
                chosen_restaurant = Restaurant(filtered_restaurants[i])

\* In a list of four the scorer returned a restaurant that is not the one of
\* the request's category.
C7_Witness ==
    /\ UniqueMatchCase
    /\ Len(filtered_restaurants) = 4
    /\ chosen_restaurant # Restaurant(filtered_restaurants[UniqueMatch])

C9_OneSnapshotPerCall ==
    (pc = "returned" /\ path \in {"ranked", "rejected", "timeout", "error"}) =>
        chosen_restaurant \in Elements(snapshot)

\* C10: no step of get_recommendation changes restaurants_data, in content or
\* in order.
C10_CatalogUnchanged ==
    [][restaurants_data' = restaurants_data]_vars

\* A call has shuffled its copy into another order and ended, the catalog
\* being what it was when the call copied it.
C10_Witness ==
    /\ pc = "returned"
    /\ path = "ranked"
    /\ Len(shuffled_restaurants) >= 2
    /\ shuffled_restaurants # snapshot
    /\ restaurants_data = snapshot

-----------------------------------------------------------------------------
(* Properties of _convert_google_drive_url *)

\* The host of a URL: what stands between '://' and the next '/', '?' or '#'.
HostOf(link) ==
    LET starts == {i \in 1..(Len(link) - 2) :
                      link[i] = ":" /\ link[i + 1] = "/" /\ link[i + 2] = "/"}
    IN  IF starts = {} THEN <<>>
        ELSE LET from == (CHOOSE i \in starts : \A j \in starts : i <= j) + 3
                 ends == {j \in from..Len(link) : link[j] \in {"/", "?", "#"}}
                 to   == IF ends = {} THEN Len(link)
                         ELSE (CHOOSE j \in ends : \A k \in ends : j <= k) - 1
             IN  SubSeq(link, from, to)

\* A second conversion returns what the first returned.
ConversionIdempotent ==
    Len(conversions) = 2 => conversions[2] = conversions[1]

\* C11: a URL whose host is drive.google.com and which contains /file/d/<id>
\* is converted to https://drive.google.com/uc?export=view&id=<id>; every
\* other URL (empty, of another host, or a drive URL without a file id) is
\* returned unchanged; and converting the result again returns it unchanged.
C11_DriveUrlsRewrittenOthersUnchanged ==
    /\ conversions # <<>> =>
           IF HostOf(photo_url) = DriveHost /\ DriveFileId(photo_url) # <<>>
           THEN conversions[1] = DriveDirectPrefix \o DriveFileId(photo_url)
           ELSE conversions[1] = photo_url
    /\ ConversionIdempotent

-----------------------------------------------------------------------------
(* Properties of start and handle_message *)

\* The application starts to handle a text message of the user.
MessageArrives(user_id) ==
    /\ update.at = "done"
    /\ update' # update
    /\ update'.kind = "message"
    /\ update'.user_id = user_id

\* The handler of a text message ends, by returning or by an exception.
HandlerEnds ==
    /\ update.kind = "message"
    /\ update.at = "awaiting"
    /\ update'.at = "done"

\* The handler reached its last line.
Completed(handled) == handled.outcome \in {"served", "apologised"}

\* The entry of the user is gone and the other entries are as they were.
OnlyEntryRemoved(user_id) ==
    /\ DOMAIN user_states' = DOMAIN user_states \ {user_id}
    /\ \A id \in DOMAIN user_states' : user_states'[id] = user_states[id]

\* A message of a user without an entry starts no call of get_recommendation
\* and leaves user_states as it is.
WithoutEntryNothingHappens ==
    \A user_id \in Users :
        MessageArrives(user_id) /\ user_id \notin DOMAIN user_states
            => /\ update'.calls = 0
               /\ update'.at = "done"
               /\ UNCHANGED <<vars, user_states>>

\* A message of a user with an entry starts one call of get_recommendation.
WithEntryOneCall ==
    \A user_id \in Users :
        MessageArrives(user_id) /\ user_id \in DOMAIN user_states
            => update'.calls = 1 /\ update'.at = "awaiting"

\* A message of a user with an entry starts one call of get_recommendation,
\* or none when the "searching" reply raises, and then nothing changes.
WithEntryOneCallUnlessReplyFails ==
    \A user_id \in Users :
        MessageArrives(user_id) /\ user_id \in DOMAIN user_states
            => \/ update'.calls = 1 /\ update'.at = "awaiting"
               \/ /\ update'.calls = 0
                  /\ update'.outcome = "reply_failed"
                  /\ UNCHANGED <<vars, user_states>>

\* While the handler awaits its call no further call is made.
NoSecondCall ==
    update.at = "awaiting" => update'.calls = 1 /\ user_request' = user_request

\* A handler that completes has removed the entry of its user and no other.
CompletedRemovesEntry ==
    HandlerEnds /\ Completed(update') => OnlyEntryRemoved(update.user_id)

\* A handler that ends by an exception leaves user_states as it is.
FailedKeepsEntries ==
    HandlerEnds /\ ~Completed(update') => user_states' = user_states

\* No user was sent two recommendations since the user's last /start.
OneRecommendationPerStart ==
    \A user_id \in Users : served_since_start[user_id] <= 1

\* C12 as stated: a message of a user without an entry starts no call of
\* get_recommendation and leaves user_states unchanged; a message of a user
\* with an entry starts exactly one call and, when its handler completes,
\* that user's entry is removed and the others are untouched; between two
\* recommendations sent to a user there is a /start of that user.
C12_OneCallPerMessageWithEntry ==
    /\ [][/\ WithoutEntryNothingHappens
          /\ WithEntryOneCall
          /\ NoSecondCall
          /\ CompletedRemovesEntry]_all_vars
    /\ []OneRecommendationPerStart

\* C12, amended: as above, but a message of a user with an entry starts at
\* most one call of get_recommendation: exactly one unless the "searching"
\* reply of line 370 raises, in which case none is made; and a handler that
\* ends by an exception leaves every entry, that of its user included.
C12_OneCallUnlessReplyFails ==
    /\ [][/\ WithoutEntryNothingHappens
          /\ WithEntryOneCallUnlessReplyFails
          /\ NoSecondCall
          /\ CompletedRemovesEntry
          /\ FailedKeepsEntries]_all_vars
    /\ []OneRecommendationPerStart

\* A recommendation was sent to a user whose entry is gone, while the other
\* user holds an entry.
C12_Witness ==
    /\ update.kind = "message"
    /\ update.outcome = "served"
    /\ update.calls = 1
    /\ served_since_start[update.user_id] = 1
    /\ update.user_id \notin DOMAIN user_states
    /\ DOMAIN user_states # {}

=============================================================================
